---- MODULE Spec2Model ----
(***************************************************************************)
(* Model of the chess game import backend (src/main.py, src/schemas.py).   *)
(*                                                                         *)
(* State: the "game" collection and, per worker, the request it serves     *)
(* with the handler's locals.  The handlers import_chesscom and            *)
(* import_lichess are split at their I/O calls (an upstream GET, the       *)
(* reading of the next game or line of a response, find_one,               *)
(* create_document), which is where another worker's request can           *)
(* interleave.  Each step takes what the upstream service answers as a     *)
(* parameter.  `upstream` says what the service may answer: anything       *)
(* within the bounds, each time it is asked, or a content that does not    *)
(* change and becomes known as it is read.                                 *)
(*                                                                         *)
(* A game document is modelled by its source, username, pgn and result;    *)
(* white, black, rated, speed, time_control, end_time and opening are      *)
(* copied from the upstream record without deciding any branch and are     *)
(* left out.  database.py is not among the source files: create_document   *)
(* and get_documents follow the description of the persistence gateway.    *)
(* The collection is a bag of documents: no handler depends on the order   *)
(* of the collection, except that get_documents returns the first `limit`  *)
(* matches of an order nothing fixes, modelled as any `limit` of them.     *)
(***************************************************************************)
EXTENDS Integers, Sequences, FiniteSets, Bags, TLC

VARIABLES
    upstream,   \* what is known of the content of chess.com and lichess
    store,      \* db["game"]: the documents, as a bag
    req,        \* per worker slot: the request it serves and its locals
    prev,       \* summary of the import that ended before the current one
    runs,       \* number of import requests started, where that is counted
    listing     \* the last GET /games request and its response

vars == <<upstream, store, req, prev, runs, listing>>

----------------------------------------------------------------------------
(* Bounds of the model *)

MaxArchives == 2     \* monthly archives in a chess.com archive index
MaxGames == 2        \* games in one chess.com archive
MaxLines == 2        \* lines in a lichess NDJSON response
MaxMonths == 2       \* largest "months" of a request
MaxLimit == 2        \* largest "limit" of a request
MaxRuns == 2         \* import requests in one behaviour, where they are counted
MaxContent == 2      \* games in all archives of a content that does not change
MaxStore == 2        \* documents in a store the query is tried on
MaxQueryLimit == 2   \* largest "limit" of GET /games

(* Program constants *)

DefaultMonths == 1          \* `req.months or 1`
DefaultLimit == 50          \* `req.limit or 50`
StatusOK == 200             \* the upstream status the handlers accept
StatusBadRequest == 400     \* the HTTPException the handlers raise
StatusServerError == 500    \* the answer to an exception no handler catches
StatusNotFound == 404       \* a non-200 upstream status

----------------------------------------------------------------------------
(* Values *)

NoneV == "None"                     \* Python's None / an absent JSON field
Slots == {1, 2}                     \* worker threads of the HTTP server
Sources == {"chesscom", "lichess"}
PgnTexts == {"p1", "p2"}
PgnVals == {NoneV, ""} \cup PgnTexts
UpstreamStatuses == {StatusOK, StatusNotFound}

SeqUpTo(S, n) == UNION {[1..k -> S] : k \in 0..n}

Min(a, b) == IF a <= b THEN a ELSE b
Max(a, b) == IF a >= b THEN a ELSE b

RECURSIVE Reverse(_)
Reverse(s) == IF s = <<>> THEN <<>> ELSE Append(Reverse(Tail(s)), Head(s))

----------------------------------------------------------------------------
(* Python helpers *)

\* a test for None alone, which lets "" through
NotNone(v) == v # NoneV
\* truthiness of an optional string: None and "" are falsy
Truthy(v) == v # NoneV /\ v # ""

\* `v or d` on an optional integer (0 stands for None; 0 itself is falsy too)
OrDefault(v, d) == IF v = 0 THEN d ELSE v

\* str.strip() on a string given as a sequence of characters
RECURSIVE LStrip(_)
LStrip(s) == IF s # <<>> /\ Head(s) = " " THEN LStrip(Tail(s)) ELSE s
Strip(s) == Reverse(LStrip(Reverse(LStrip(s))))

\* str.lower()
Lower(s) == [i \in DOMAIN s |-> IF s[i] = "B" THEN "b" ELSE s[i]]

\* list[-n:] for n >= 1
LastN(s, n) == SubSeq(s, Max(1, Len(s) - n + 1), Len(s))

----------------------------------------------------------------------------
(* Upstream data *)

\* the "white" / "black" member of a chess.com game: absent (or an empty
\* object), or an object with or without a "result"
Player(p, r) == [present |-> p, result |-> r]

ChessGame(p, w, b) == [pgn |-> p, white |-> w, black |-> b]

\* chess.com games: every PGN value with both results present, a game without
\* "white", and two games in which a player object lacks its "result"
GameVals ==
    { ChessGame(p, Player(TRUE, "win"), Player(TRUE, "win")) : p \in PgnVals }
    \cup { ChessGame("p1", Player(FALSE, NoneV), Player(TRUE, "win")),
           ChessGame("p2", Player(TRUE, NoneV), Player(TRUE, "win")),
           ChessGame("p2", Player(TRUE, "win"), Player(TRUE, NoneV)) }
NoGame == ChessGame(NoneV, Player(FALSE, NoneV), Player(FALSE, NoneV))

\* one line of the lichess response: blank, not JSON, JSON on which g.get
\* raises (a list, a number, a string, null), or a game object with optional
\* "pgn" and "pgnStr"
Line(k, p, ps) == [kind |-> k, pgn |-> p, pgnStr |-> ps, status |-> "mate"]
LineVals ==
    { Line(k, NoneV, NoneV) : k \in {"blank", "invalid", "scalar"} }
    \cup { Line("object", p, NoneV) : p \in PgnVals }
    \cup { Line("object", "", "p2") }
NoLine == Line("blank", NoneV, NoneV)

\* what is known of the answer to one GET: its status, the number of games or
\* lines it holds, and those read so far
Unknown == [known |-> FALSE, status |-> 0, n |-> 0, items |-> <<>>]
Answer(st, n) ==
    [known |-> TRUE, status |-> st, n |-> IF st = StatusOK THEN n ELSE 0, items |-> <<>>]

\* the upstream services: with fixed = FALSE the content may change between
\* any two GETs and nothing is ever known of it
Content(fixed) ==
    [ fixed |-> fixed,
      index |-> Unknown,                               \* the archive index
      archive |-> [i \in 1..MaxArchives |-> Unknown],  \* each monthly archive
      lichess |-> Unknown ]                            \* the games export

\* the answer (st, n) agrees with what is known of a URL
Serves(k, st, n) == k.known => k = [Answer(st, n) EXCEPT !.items = k.items]
\* the i-th game or line of an answer may be g
Holds(k, i, g) == IF k.known /\ i <= Len(k.items) THEN k.items[i] = g ELSE TRUE

Learn(k, st, n) == IF upstream.fixed /\ ~k.known THEN Answer(st, n) ELSE k
LearnItem(k, i, g) ==
    IF upstream.fixed /\ i = Len(k.items) + 1 THEN [k EXCEPT !.items = Append(@, g)] ELSE k

----------------------------------------------------------------------------
(* Persistence gateway (database.py) *)

Doc(src, user, pgn, result) ==
    [source |-> src, username |-> user, pgn |-> pgn, result |-> result]

\* exact-field match of a document against a filter mapping
Matches(d, filt) == \A f \in DOMAIN filt : d[f] = filt[f]

\* the documents of the collection that match, with their multiplicity
FindMany(coll, filt) ==
    [d \in {e \in BagToSet(coll) : Matches(e, filt)} |-> coll[d]]

\* find_one: a matching document if there is one, as a set of zero or one
FindOne(coll, filt) ==
    LET hits == DOMAIN FindMany(coll, filt)
    IN IF hits = {} THEN {} ELSE {CHOOSE d \in hits : TRUE}

CreateDocument(coll, d) == coll (+) SetToBag({d})

\* the bags made of n of the documents of a bag
Take(bag, n) ==
    LET docs == DOMAIN bag
        counts == { c \in [docs -> 0..n] : \A d \in docs : c[d] <= bag[d] }
    IN { b \in { [d \in {e \in docs : c[e] > 0} |-> c[d]] : c \in counts } :
            BagCardinality(b) = n }

\* get_documents: what it may return, any `limit` of the matches (all of them
\* when there are fewer)
GetDocuments(coll, filt, limit) ==
    LET hits == FindMany(coll, filt)
    IN Take(hits, Min(limit, BagCardinality(hits)))

----------------------------------------------------------------------------
(* Requests *)

\* usernames a client sends, as character sequences
UserInputs == { <<" ">>, <<"B", " ">> }
MonthInputs == 0..MaxMonths       \* 0: "months" omitted
LimitInputs == 0..MaxLimit        \* 0: "limit" omitted

NoDetail == [text |-> "", user |-> <<>>]
Response(st, src, user, n, detail) ==
    [status |-> st, source |-> src, username |-> user, inserted |-> n, detail |-> detail]
NoResponse == Response(0, "", <<>>, 0, NoDetail)

NoDoc == Doc("", <<>>, "", NoneV)

IdleReq ==
    [ pc |-> "idle",            \* where the handler stands
      source |-> "",            \* which import endpoint was called
      input |-> <<>>,           \* req.username as sent
      username |-> <<>>,        \* local `username`
      months |-> 0,             \* local `months`
      limit |-> 0,              \* local `limit`
      archives |-> 0,           \* number of URLs in the archive index
      todo |-> <<>>,            \* archive URLs the loop has yet to visit
      left |-> 0,               \* games (lines) of the response yet to visit
      outcome |-> "",           \* what the loop did with the last game or line
      game |-> NoGame,          \* the chess.com game visited last
      line |-> NoLine,          \* the lichess line visited last
      doc |-> NoDoc,            \* game_doc about to be created
      total_inserted |-> 0,     \* local `total_inserted`
      calls |-> 0,              \* upstream GETs made by this request
      fetched |-> <<>>,         \* archive URLs fetched, in order
      first_status |-> 0,       \* status of the request's first upstream GET
      before |-> EmptyBag,      \* the store when the request arrived
      resp |-> NoResponse ]     \* the HTTP response, once pc = "done"

Summary(q) ==
    [ source |-> q.source, input |-> q.input, months |-> q.months, limit |-> q.limit,
      status |-> q.resp.status,
      added |-> BagCardinality(store) - BagCardinality(q.before) ]
NoSummary ==
    [ source |-> "", input |-> <<>>, months |-> 0, limit |-> 0, status |-> 0, added |-> 0 ]

NoListing ==
    [ source |-> [some |-> FALSE, val |-> ""], username |-> [some |-> FALSE, val |-> <<>>],
      limit |-> 0, count |-> 0, items |-> EmptyBag ]

\* a test for server errors alone, which lets a 404 through
UpstreamNoServerError(status) == status < StatusServerError
\* a non-200 upstream answer ends the import with a 400
UpstreamOK(status) == status = StatusOK

Set(r, q) == req' = [req EXCEPT ![r] = q]

Return(q) ==
    [q EXCEPT !.pc = "done",
              !.resp = Response(StatusOK, q.source, q.username, q.total_inserted, NoDetail)]
Raise(q, st, text) ==
    [q EXCEPT !.pc = "done",
              !.resp = Response(st, "", <<>>, 0, [text |-> text, user |-> q.username])]
\* an exception no handler catches: FastAPI answers 500
Crash(q) ==
    [q EXCEPT !.pc = "done", !.resp = Response(StatusServerError, "", <<>>, 0, NoDetail)]

\* a worker takes a request; prev and runs are the specification's to set
Begin(r, src, u, user, m, l) ==
    /\ req[r].pc \in {"idle", "done"}
    /\ Set(r, [IdleReq EXCEPT !.pc = "fetch", !.source = src, !.input = u,
                              !.username = user, !.months = m, !.limit = l,
                              !.before = store])
    /\ UNCHANGED <<upstream, store, listing>>

\* the response is sent and the worker is free again
Finish(r) ==
    /\ req[r].pc = "done"
    /\ Set(r, IdleReq)
    /\ UNCHANGED <<upstream, store, prev, runs, listing>>

----------------------------------------------------------------------------
(* POST /import/chesscom *)

\* a copy-and-paste slip in the key: the other endpoint's source
ChesscomKeyOtherSource(pgn) == [source |-> "lichess", pgn |-> pgn]
ChesscomKey(pgn) == [source |-> "chesscom", pgn |-> pgn]

ChesscomUsername(u) == Lower(Strip(u))

\* the slice taken from the wrong end: archives[:months]
ArchiveListOldest(index, months) == Reverse(SubSeq(index, 1, Min(months, Len(index))))
\* archive_list, in the order the loop visits it
ArchiveList(index, months) == Reverse(LastN(index, months))

\* the archive index chess.com serves: n archive URLs, oldest first
ArchiveIndex(n) == [i \in 1..n |-> i]

\* line 97: the conditional expression's test
BothPlayers(g) == g.white.present /\ g.black.present
\* line 97: None + "/" or str + None raises TypeError
ResultRaises(g) ==
    BothPlayers(g) /\ (g.white.result = NoneV \/ g.black.result = NoneV)
ChesscomResult(g) ==
    IF BothPlayers(g) THEN g.white.result \o "/" \o g.black.result ELSE NoneV

\* an off-by-one cap: > where the code has >=
LimitReachedLate(q) == q.total_inserted > q.limit
\* lines 90 and 123: the cap on inserted games
LimitReached(q) == q.total_inserted >= q.limit

\* lines 71-73: the handler is entered
ChesscomStart(r, u, m, l) ==
    Begin(r, "chesscom", u, ChesscomUsername(u),
          OrDefault(m, DefaultMonths), OrDefault(l, DefaultLimit))

\* lines 76-81: GET the archive index; chess.com answers status st and n URLs
ChesscomArchives(r, st, n) ==
    LET q == req[r]
        q1 == [q EXCEPT !.calls = q.calls + 1, !.first_status = st]
    IN /\ q.pc = "fetch" /\ q.source = "chesscom"
       /\ Serves(upstream.index, st, n)
       /\ upstream' = [upstream EXCEPT !.index = Learn(@, st, n)]
       /\ IF ~UpstreamOK(st)
          THEN Set(r, Raise(q1, StatusBadRequest, "chess.com user not found or no archives"))
          ELSE Set(r, [q1 EXCEPT !.pc = "archive",
                                 !.archives = n,
                                 !.todo = ArchiveList(ArchiveIndex(n), q.months),
                                 !.total_inserted = 0])
       /\ UNCHANGED <<store, prev, runs, listing>>

\* lines 83-88 and 126: the head of the archive loop; chess.com answers the
\* GET of the next archive with status st and n games
ChesscomArchive(r, st, n) ==
    LET q == req[r] IN
    /\ q.pc = "archive"
    /\ IF q.todo = <<>>
       THEN Set(r, Return(q)) /\ UNCHANGED upstream
       ELSE LET url == Head(q.todo)
                q1 == [q EXCEPT !.calls = q.calls + 1,
                                !.fetched = Append(q.fetched, url),
                                !.todo = Tail(q.todo)]
            IN /\ Serves(upstream.archive[url], st, n)
               /\ upstream' = [upstream EXCEPT !.archive[url] = Learn(@, st, n)]
               /\ IF st # StatusOK
                  THEN Set(r, q1)
                  ELSE Set(r, [q1 EXCEPT !.pc = "game", !.left = n, !.outcome = ""])
    /\ UNCHANGED <<store, prev, runs, listing>>

\* lines 89-120 and 123-124: the head of the game loop, up to find_one; g is
\* the next game of the archive
ChesscomGame(r, g) ==
    LET q == req[r]
        url == q.fetched[Len(q.fetched)]
        i == upstream.archive[url].n - q.left + 1
        next == [q EXCEPT !.left = q.left - 1, !.game = g]
    IN /\ q.pc = "game"
       /\ IF q.left = 0 \/ LimitReached(q)
          THEN /\ IF LimitReached(q)
                  THEN Set(r, Return(q))
                  ELSE Set(r, [q EXCEPT !.pc = "archive"])
               /\ UNCHANGED upstream
          ELSE /\ Holds(upstream.archive[url], i, g)
               /\ upstream' = [upstream EXCEPT !.archive[url] = LearnItem(@, i, g)]
               /\ IF ~Truthy(g.pgn)
                  THEN Set(r, [next EXCEPT !.outcome = "no pgn"])
                  ELSE IF ResultRaises(g)
                       THEN Set(r, Crash([q EXCEPT !.game = g]))
                       ELSE IF FindOne(store, ChesscomKey(g.pgn)) # {}
                            THEN Set(r, [next EXCEPT !.outcome = "duplicate"])
                            ELSE Set(r, [next EXCEPT !.pc = "create",
                                            !.doc = Doc("chesscom", q.username, g.pgn,
                                                        ChesscomResult(g))])
       /\ UNCHANGED <<store, prev, runs, listing>>

\* lines 121-122: create_document, then the count
ChesscomCreate(r) ==
    LET q == req[r] IN
    /\ q.pc = "create" /\ q.source = "chesscom"
    /\ store' = CreateDocument(store, q.doc)
    /\ Set(r, [q EXCEPT !.pc = "game", !.doc = NoDoc, !.outcome = "inserted",
                        !.total_inserted = q.total_inserted + 1])
    /\ UNCHANGED <<upstream, prev, runs, listing>>

----------------------------------------------------------------------------
(* POST /import/lichess *)

\* a copy-and-paste slip in the key: the other endpoint's source
LichessKeyOtherSource(pgn) == [source |-> "chesscom", pgn |-> pgn]
LichessKey(pgn) == [source |-> "lichess", pgn |-> pgn]

LichessUsername(u) == Strip(u)

\* `a or b` on optional strings
PyOr(a, b) == IF Truthy(a) THEN a ELSE b

\* line 159
LichessPgn(g) == PyOr(g.pgn, g.pgnStr)

\* lines 132-133: the handler is entered
LichessStart(r, u, l) ==
    Begin(r, "lichess", u, LichessUsername(u), 0, OrDefault(l, DefaultLimit))

\* lines 135-150: the one GET, with max = limit; lichess answers status st and
\* n lines
LichessFetch(r, st, n) ==
    LET q == req[r]
        q1 == [q EXCEPT !.calls = q.calls + 1, !.first_status = st]
    IN /\ q.pc = "fetch" /\ q.source = "lichess"
       /\ Serves(upstream.lichess, st, n)
       /\ upstream' = [upstream EXCEPT !.lichess = Learn(@, st, n)]
       /\ IF ~UpstreamOK(st)
          THEN Set(r, Raise(q1, StatusBadRequest, "lichess user not found or API error"))
          ELSE Set(r, [q1 EXCEPT !.pc = "line", !.left = n, !.total_inserted = 0])
       /\ UNCHANGED <<store, prev, runs, listing>>

\* lines 151-194 and 198: the head of the line loop, up to find_one; g is the
\* next line of the response
LichessLine(r, g) ==
    LET q == req[r]
        i == upstream.lichess.n - q.left + 1
        next == [q EXCEPT !.left = q.left - 1, !.line = g]
    IN /\ q.pc = "line"
       /\ IF q.left = 0
          THEN Set(r, Return(q)) /\ UNCHANGED upstream
          ELSE /\ Holds(upstream.lichess, i, g)
               /\ upstream' = [upstream EXCEPT !.lichess = LearnItem(@, i, g)]
               /\ IF g.kind \in {"blank", "invalid"}
                  THEN Set(r, [next EXCEPT !.outcome = "no json"])
                  ELSE IF g.kind = "scalar"      \* g.get on a list, number or string
                       THEN Set(r, Crash([q EXCEPT !.line = g]))
                       ELSE IF ~Truthy(LichessPgn(g))
                            THEN Set(r, [next EXCEPT !.outcome = "no pgn"])
                            ELSE IF FindOne(store, LichessKey(LichessPgn(g))) # {}
                                 THEN Set(r, [next EXCEPT !.outcome = "duplicate"])
                                 ELSE Set(r, [next EXCEPT !.pc = "create",
                                                 !.doc = Doc("lichess", q.username,
                                                             LichessPgn(g),
                                                             PyOr(g.status, NoneV))])
       /\ UNCHANGED <<store, prev, runs, listing>>

\* lines 195-196: create_document, then the count
LichessCreate(r) ==
    LET q == req[r] IN
    /\ q.pc = "create" /\ q.source = "lichess"
    /\ store' = CreateDocument(store, q.doc)
    /\ Set(r, [q EXCEPT !.pc = "line", !.doc = NoDoc, !.outcome = "inserted",
                        !.total_inserted = q.total_inserted + 1])
    /\ UNCHANGED <<upstream, prev, runs, listing>>

----------------------------------------------------------------------------
(* GET /games *)

\* an optional query parameter
Given(v) == [some |-> TRUE, val |-> v]
Omitted(v) == [some |-> FALSE, val |-> v]

\* the username filter dropped
QueryFilterSourceOnly(src, user) ==
    LET fields == IF src.some /\ src.val # "" THEN {"source"} ELSE {}
    IN [f \in fields |-> src.val]
\* lines 208-212: `if source:` and `if username:` test truthiness
QueryFilter(src, user) ==
    LET fields == (IF src.some /\ src.val # "" THEN {"source"} ELSE {})
                  \cup (IF user.some /\ user.val # <<>> THEN {"username"} ELSE {})
    IN [f \in fields |-> IF f = "source" THEN src.val ELSE user.val]

ListGames(src, user, lim) ==
    /\ \E docs \in GetDocuments(store, QueryFilter(src, user), lim) :
          listing' = [source |-> src, username |-> user, limit |-> lim,
                      count |-> BagCardinality(docs), items |-> docs]
    /\ UNCHANGED <<upstream, store, req, prev, runs>>

----------------------------------------------------------------------------
(* Requests served one at a time, the upstream services answering anything *)

Init ==
    /\ upstream = Content(FALSE)
    /\ store = EmptyBag
    /\ req = [r \in Slots |-> IdleReq]
    /\ prev = NoSummary
    /\ runs = 0
    /\ listing = NoListing

\* a request arrives at an idle worker
Start(r) ==
    /\ req[r].pc = "idle"
    /\ \/ \E u \in UserInputs, m \in MonthInputs, l \in LimitInputs :
             ChesscomStart(r, u, m, l)
       \/ \E u \in UserInputs, l \in LimitInputs : LichessStart(r, u, l)
    /\ UNCHANGED <<prev, runs>>

\* what the upstream services may answer: the statuses, the number of URLs of
\* an archive index, of games of an archive and of lines of an export, and
\* the games and the lines
Offer(statuses, indexes, archives, exports, games, lines) ==
    [ statuses |-> statuses, indexes |-> indexes, archives |-> archives,
      exports |-> exports, games |-> games, lines |-> lines ]

\* one step of a handler, the upstream answering within the offer
Serve(r, o) ==
    \/ \E st \in o.statuses, n \in o.indexes : ChesscomArchives(r, st, n)
    \/ \E st \in o.statuses, n \in o.archives : ChesscomArchive(r, st, n)
    \/ \E g \in o.games : ChesscomGame(r, g)
    \/ ChesscomCreate(r)
    \/ \E st \in o.statuses, n \in o.exports : LichessFetch(r, st, n)
    \/ \E g \in o.lines : LichessLine(r, g)
    \/ LichessCreate(r)

Step(r) ==
    Serve(r, Offer(UpstreamStatuses, 0..MaxArchives, 0..MaxGames, 0..MaxLines,
                   GameVals, LineVals))

Next == Start(1) \/ Step(1) \/ Finish(1)

Spec == Init /\ [][Next]_vars

----------------------------------------------------------------------------
(* The same import repeated, the upstream content fixed *)

OkGames == { ChessGame(p, Player(TRUE, "win"), Player(TRUE, "win")) : p \in PgnTexts }
OkLines == { Line("object", p, NoneV) : p \in PgnTexts }

RepeatGames ==
    OkGames \cup { ChessGame(NoneV, Player(TRUE, "win"), Player(TRUE, "win")),
                   ChessGame("p2", Player(TRUE, NoneV), Player(TRUE, "win")) }
RepeatLines == OkLines \cup { Line("invalid", NoneV, NoneV), Line("scalar", NoneV, NoneV) }

InitRepeat ==
    /\ upstream = Content(TRUE)
    /\ store = EmptyBag
    /\ req = [r \in Slots |-> IdleReq]
    /\ prev = NoSummary
    /\ runs = 0
    /\ listing = NoListing

First(r) ==
    /\ runs = 0
    /\ \/ \E u \in UserInputs, m \in MonthInputs, l \in LimitInputs :
             ChesscomStart(r, u, m, l)
       \/ \E u \in UserInputs, l \in LimitInputs : LichessStart(r, u, l)
    /\ runs' = 1
    /\ prev' = prev

\* the request that has just ended is sent again
Repeat(r) ==
    LET q == req[r] IN
    /\ q.pc = "done"
    /\ runs < MaxRuns
    /\ Begin(r, q.source, q.input, q.username, q.months, q.limit)
    /\ runs' = runs + 1
    /\ prev' = Summary(q)

\* games the archives read so far hold
RECURSIVE Promised(_)
Promised(n) == IF n = 0 THEN 0 ELSE upstream.archive[n].n + Promised(n - 1)

\* the content holds MaxContent games at most
StepRepeat(r) ==
    Serve(r, Offer(UpstreamStatuses, 0..MaxArchives,
                   0..Min(MaxGames, MaxContent - Promised(MaxArchives)),
                   0..MaxLines, RepeatGames, RepeatLines))

NextRepeat == First(1) \/ StepRepeat(1) \/ Repeat(1)

SpecRepeat == InitRepeat /\ [][NextRepeat]_vars

----------------------------------------------------------------------------
(* Two workers serving requests whose steps interleave *)

StartConc(r) ==
    /\ req[r].pc = "idle"
    /\ runs < MaxRuns
    /\ \/ ChesscomStart(r, <<"B", " ">>, 0, 0)
       \/ LichessStart(r, <<"B", " ">>, 0)
    /\ runs' = runs + 1
    /\ prev' = prev

StepConc(r) ==
    Serve(r, Offer({StatusOK}, {1}, 1..MaxGames, 1..MaxLines, OkGames, OkLines))

NextConc == \E r \in Slots : StartConc(r) \/ StepConc(r) \/ Finish(r)

SpecConc == Init /\ [][NextConc]_vars

----------------------------------------------------------------------------
(* GET /games tried on every bounded store *)

RECURSIVE BagOf(_)
BagOf(s) == IF s = <<>> THEN EmptyBag ELSE BagOf(Tail(s)) (+) SetToBag({Head(s)})

QueryUsers == { <<>>, <<"b">>, <<"B">> }
QueryDocs ==
    { Doc(src, u, p, NoneV) : src \in Sources, u \in QueryUsers, p \in PgnTexts }
SourceParams == { Omitted("") } \cup { Given(v) : v \in Sources \cup {""} }
UserParams == { Omitted(<<>>) } \cup { Given(u) : u \in QueryUsers }
QueryLimits == 1..MaxQueryLimit

InitQuery ==
    /\ upstream = Content(FALSE)
    /\ store \in { BagOf(s) : s \in SeqUpTo(QueryDocs, MaxStore) }
    /\ req = [r \in Slots |-> IdleReq]
    /\ prev = NoSummary
    /\ runs = 0
    /\ listing = NoListing

NextQuery ==
    \E src \in SourceParams, user \in UserParams, lim \in QueryLimits :
        ListGames(src, user, lim)

SpecQuery == InitQuery /\ [][NextQuery]_vars

----------------------------------------------------------------------------
(* Properties *)

Cur == req[1]       \* the request being served when requests run one at a time

KeyCount(src, pgn) == BagCardinality(FindMany(store, [source |-> src, pgn |-> pgn]))

\* C1: with requests served one at a time, no two documents of the store have
\* the same (source, pgn)
C1_UniqueKeys ==
    \A d \in BagToSet(store) : KeyCount(d.source, d.pgn) = 1

\* a chess.com import that found the store empty has read the PGN it stored
\* once more from the same archive, and skipped it
C1_Witness ==
    /\ Cur.source = "chesscom" /\ Cur.pc = "game"
    /\ Cur.outcome = "duplicate"
    /\ Len(Cur.fetched) = 1
    /\ Cur.before = EmptyBag /\ Cur.total_inserted = 1
    /\ KeyCount("chesscom", Cur.game.pgn) = 1

\* the request's username is not blank
NamedRequest(q) == Strip(q.input) # <<>>

SameRequest(p, q) ==
    /\ p.source = q.source /\ p.input = q.input
    /\ p.months = q.months /\ p.limit = q.limit

\* C2 as claimed: an import that repeats the import before it adds nothing to
\* the store and, when it returns, reports inserted = 0
C2_Idempotent ==
    (Cur.pc = "done" /\ NamedRequest(Cur) /\ SameRequest(prev, Cur))
        => /\ store = Cur.before
           /\ Cur.resp.status = StatusOK => Cur.resp.inserted = 0

\* C2 amended: the same, when the first import was a lichess import or a
\* chess.com import that added fewer than `limit` documents
C2_IdempotentBelowLimit ==
    (SameRequest(prev, Cur) /\ (Cur.source = "lichess" \/ prev.added < prev.limit))
        => /\ store = Cur.before
           /\ Cur.total_inserted = 0
           /\ (Cur.pc = "done" /\ Cur.resp.status = StatusOK) => Cur.resp.inserted = 0

\* a repeated import has returned 0 after a first import that added documents
C2_Witness ==
    /\ Cur.pc = "done" /\ SameRequest(prev, Cur)
    /\ prev.added >= 1 /\ prev.added < prev.limit
    /\ Cur.resp.status = StatusOK /\ Cur.resp.inserted = 0

\* C3: a chess.com import never counts more than `limit`, its count is the
\* number of documents it has added, that count is what it returns, and no
\* insert is under way once the count has reached `limit`
C3_CountWithinLimit ==
    Cur.source = "chesscom"
        => /\ Cur.total_inserted <= Cur.limit
           /\ Cur.total_inserted = BagCardinality(store) - BagCardinality(Cur.before)
           /\ Cur.before \sqsubseteq store
           /\ Cur.pc = "create" => Cur.total_inserted < Cur.limit
           /\ (Cur.pc = "done" /\ Cur.resp.status = StatusOK)
                 => Cur.resp.inserted = Cur.total_inserted

\* a chess.com import that found documents in the store has returned
\* inserted = limit, leaving games of the current archive and a whole archive
\* unread
C3_Witness ==
    /\ Cur.pc = "done" /\ Cur.source = "chesscom" /\ Cur.resp.status = StatusOK
    /\ Cur.resp.inserted = Cur.limit
    /\ Cur.left > 0 /\ Cur.todo # <<>>
    /\ Cur.before # EmptyBag

\* C4: every stored document has a source of the enumeration and a PGN that is
\* neither missing nor empty
C4_StoredHavePgn ==
    \A d \in BagToSet(store) :
        /\ d.source \in Sources
        /\ d.pgn # NoneV
        /\ d.pgn # ""

\* a chess.com import has skipped a game whose PGN is empty and whose players
\* and results are there, after storing the game before it
C4_Witness ==
    /\ Cur.source = "chesscom" /\ Cur.pc = "game"
    /\ Cur.outcome = "no pgn"
    /\ Cur.game.pgn = ""
    /\ BothPlayers(Cur.game) /\ ~ResultRaises(Cur.game)
    /\ Cur.total_inserted = 1
    /\ BagCardinality(store) = BagCardinality(Cur.before) + 1

\* the M most recent of N archives, newest first
NewestFirst(n, m) == [i \in 1..m |-> n - i + 1]

IsPrefix(s, t) == Len(s) <= Len(t) /\ s = SubSeq(t, 1, Len(s))

\* a chess.com request that got its archive index, with months <= archives
IndexedRequest(q) ==
    /\ q.source = "chesscom"
    /\ q.pc \in {"archive", "game", "create", "done"}
    /\ q.first_status = StatusOK
    /\ q.months <= q.archives

\* C5 as claimed: a chess.com import that returns has fetched exactly the M
\* most recent archives, newest first
C5_FetchesAllOfWindow ==
    (IndexedRequest(Cur) /\ NamedRequest(Cur)
        /\ Cur.pc = "done" /\ Cur.resp.status = StatusOK)
        => Cur.fetched = NewestFirst(Cur.archives, Cur.months)

\* C5 amended: the archives fetched are always the first ones of the M most
\* recent taken newest first, and all M of them when the import returns with
\* inserted < limit
C5_FetchesWindowUntilLimit ==
    IndexedRequest(Cur)
        => /\ IsPrefix(Cur.fetched, NewestFirst(Cur.archives, Cur.months))
           /\ (Cur.pc = "done" /\ Cur.resp.status = StatusOK
                 /\ Cur.resp.inserted < Cur.limit)
                 => Cur.fetched = NewestFirst(Cur.archives, Cur.months)

\* with two archives, an import with months = 1 has returned after fetching the
\* newer one only
C5_Witness ==
    /\ IndexedRequest(Cur) /\ Cur.pc = "done" /\ Cur.resp.status = StatusOK
    /\ Cur.archives = 2 /\ Cur.months = 1
    /\ Cur.resp.inserted < Cur.limit
    /\ Cur.fetched = <<2>>

\* C6: with interleaved requests a (source, pgn) is stored at most once per
\* worker, since every insert follows a check that found nothing
C6_OnePerWorker ==
    \A d \in BagToSet(store) : KeyCount(d.source, d.pgn) <= Cardinality(Slots)

\* two interleaved imports of the same source have both inserted the same
\* (source, pgn)
C6_Witness ==
    /\ \A r \in Slots : req[r].source = "chesscom" /\ req[r].total_inserted = 1
    /\ \E p \in PgnTexts : KeyCount("chesscom", p) = 2

\* C7: an import whose first upstream GET was not a 200 has ended with a 400
\* naming the username, made no other GET and left the store as it was
C7_UpstreamErrorIs400 ==
    (Cur.first_status # 0 /\ Cur.first_status # StatusOK)
        => /\ Cur.pc = "done"
           /\ Cur.resp.status = StatusBadRequest
           /\ Cur.resp.detail.text # ""
           /\ Cur.resp.detail.user = Cur.username
           /\ Cur.calls = 1
           /\ store = Cur.before

\* an import has ended with a 400 while the store held a document
C7_Witness ==
    /\ Cur.pc = "done" /\ Cur.first_status = StatusNotFound
    /\ Cur.resp.status = StatusBadRequest
    /\ Cur.username # <<>>
    /\ store # EmptyBag

\* C8 as claimed: an import whose username is empty after trimming makes no
\* upstream GET, adds nothing and ends with a 400
C8_BlankUsernameRejected ==
    (Cur.pc # "idle" /\ Strip(Cur.input) = <<>>)
        => /\ Cur.calls = 0
           /\ store = Cur.before
           /\ Cur.pc = "done" => Cur.resp.status = StatusBadRequest

TruthyParam(p, empty) == p.some /\ p.val # empty

ItemsMatch(bySource, byUser) ==
    \A d \in BagToSet(listing.items) :
        /\ bySource => d.source = listing.source.val
        /\ byUser => d.username = listing.username.val

CountWithinLimit ==
    /\ listing.count = BagCardinality(listing.items)
    /\ listing.count <= listing.limit

\* C9 as claimed: every item matches each filter that was supplied, count is
\* the number of items and at most limit
C9_ItemsMatchSupplied ==
    listing.limit # 0
        => /\ ItemsMatch(listing.source.some, listing.username.some)
           /\ CountWithinLimit

\* C9 amended: every item matches each filter supplied with a non-empty value,
\* count is the number of items and at most limit, and the store is unchanged
C9_ItemsMatchNonEmpty ==
    /\ [](listing.limit # 0
            => /\ ItemsMatch(TruthyParam(listing.source, ""),
                             TruthyParam(listing.username, <<>>))
               /\ CountWithinLimit)
    /\ [][store' = store]_vars

\* a query with both filters has returned `limit` items from a store that holds
\* a document of another source
C9_Witness ==
    /\ TruthyParam(listing.source, "") /\ TruthyParam(listing.username, <<>>)
    /\ listing.count = 1 /\ listing.limit = 1
    /\ BagCardinality(store) = 2
    /\ \E d \in BagToSet(store) : d.source # listing.source.val

\* what the claim says `result` is: the two results joined when both are
\* there, absent otherwise
ClaimedResult(g) ==
    IF g.white.present /\ g.black.present
          /\ g.white.result # NoneV /\ g.black.result # NoneV
    THEN g.white.result \o "/" \o g.black.result
    ELSE NoneV

\* C10 as claimed: a chess.com import that got its archive index ends by
\* returning, whatever the player objects of its games hold, and a game about
\* to be stored carries the claimed result
C10_ResultOrAbsent ==
    /\ (Cur.source = "chesscom" /\ NamedRequest(Cur)
          /\ Cur.pc = "done" /\ Cur.first_status = StatusOK)
          => Cur.resp.status = StatusOK
    /\ (Cur.source = "chesscom" /\ Cur.pc = "create")
          => Cur.doc.result = ClaimedResult(Cur.game)

====
